---- MODULE Spec2Model ----
(***************************************************************************)
(* Model of databricks.labs.ucx.workspace_access.redash:                   *)
(* SqlPermissionsSupport, the crawler / applier of DBSQL (redash) object   *)
(* permissions used when workspace groups are migrated to account groups.  *)
(*                                                                         *)
(* Two specifications:                                                     *)
(*   SpecRewrite  one permission record, one migration state: the          *)
(*                relevance filter and the ACL rewriter applied to it,     *)
(*                with the AccessControl objects kept on a heap so that    *)
(*                object identity (aliasing) is visible;                   *)
(*   Spec         the crawl pass and the apply pass over a listing of      *)
(*                objects, with the remote get / set calls as steps.       *)
(***************************************************************************)
EXTENDS FiniteSets, Integers, Sequences, TLC

-----------------------------------------------------------------------------
(* Bounds *)

\* longest access control list of the record under SpecRewrite
MaxAcl == 2
\* most groups in a migration state
MaxGroups == 2
\* number of objects the listings produce under Spec
NObjects == 2
\* longest access control list the remote returns under Spec
MaxRemoteAcl == 1

-----------------------------------------------------------------------------
(* Values *)

\* Python's None, for Optional[str] fields
None == "None"

\* display names of the workspace groups that may be under migration
WorkspaceNames == {"eng-ws", "ops-ws"}

\* display names a destination group (backup or account) may have; an account
\* group may carry the name of a workspace group
BackupNames == {"db-temp"}

AccountNames == {"eng-acct", "ops-ws"}

\* group names an ACL entry may carry
AclGroupNames == WorkspaceNames \cup {"eng-acct"}

UserNames == {"alice"}

\* sql.PermissionLevel (member name = value)
PermissionLevel == {"CAN_RUN", "CAN_VIEW"}

\* typing Destination = Literal["backup", "account"]
Destination == {"backup", "account"}

\* sql.AccessControl: one grant; a grant names a group or a user
AccessControl ==
    [group_name : AclGroupNames, user_name : {None}, permission_level : PermissionLevel]
    \cup
    [group_name : {None}, user_name : UserNames, permission_level : PermissionLevel]

AccessControlFields == {"group_name", "user_name", "permission_level"}

SeqsUpTo(S, n) == UNION {[1..k -> S] : k \in 0..n}

\* iam.Group, reduced to the field the code reads
Group(name) == [display_name |-> name]

\* groups.MigrationGroupInfo; every group of a migration state has a display name
MigrationGroupInfo ==
    {[workspace |-> Group(w), backup |-> Group(b), account |-> Group(a)] :
        w \in WorkspaceNames, b \in BackupNames, a \in AccountNames}

\* [g.workspace.display_name for g in migration_state.groups]
workspace_display_names(migration_state) ==
    {migration_state.groups[i].workspace.display_name :
        i \in 1..Len(migration_state.groups)}

\* groups.GroupMigrationState: the ordered groups, source names unique.
\* `unresolved` are the workspace names for which the by-name lookup finds
\* nothing although the group is listed (an inconsistent migration state).
GroupMigrationState ==
    {[groups |-> gs, unresolved |-> u] :
        gs \in {s \in SeqsUpTo(MigrationGroupInfo, MaxGroups) :
                  \A i, j \in 1..Len(s) :
                      s[i].workspace.display_name = s[j].workspace.display_name => i = j},
        u \in SUBSET WorkspaceNames}

\* the migration states the program can hold: at most one unresolved name,
\* and only a listed one
MigrationStates ==
    {m \in GroupMigrationState :
        /\ m.unresolved \subseteq workspace_display_names(m)
        /\ Cardinality(m.unresolved) <= 1}

\* GroupMigrationState.get_by_workspace_group_name: the first listed info with
\* that workspace name, as <<info>>, or <<>> for None
get_by_workspace_group_name(migration_state, workspace_group_name) ==
    LET found == SelectSeq(migration_state.groups,
                     LAMBDA g : g.workspace.display_name = workspace_group_name)
    IN  IF workspace_group_name \in migration_state.unresolved \/ Len(found) = 0
        THEN <<>>
        ELSE <<found[1]>>

-----------------------------------------------------------------------------
(* Serialisation: Permissions.raw is json.dumps(GetResponse.as_dict()) *)

\* sql.AccessControl.as_dict: only the fields that are set
AccessControl_as_dict(ac) ==
    [k \in {f \in AccessControlFields : ac[f] # None} |-> ac[k]]

\* sql.AccessControl.from_dict: a missing key reads as None
AccessControl_from_dict(d) ==
    [group_name       |-> IF "group_name" \in DOMAIN d THEN d["group_name"] ELSE None,
     user_name        |-> IF "user_name" \in DOMAIN d THEN d["user_name"] ELSE None,
     permission_level |-> IF "permission_level" \in DOMAIN d
                          THEN d["permission_level"] ELSE None]

\* json.dumps(permissions.as_dict()) of a sql.GetResponse
GetResponse_as_dict(permissions) ==
    [access_control_list |->
        [i \in 1..Len(permissions.access_control_list) |->
            AccessControl_as_dict(permissions.access_control_list[i])]]

\* sql.GetResponse.from_dict(json.loads(raw)).access_control_list; a response
\* without entries parses to the empty list
parsed_access_control_list(raw) ==
    [i \in 1..Len(raw.access_control_list) |->
        AccessControl_from_dict(raw.access_control_list[i])]

\* sql.ObjectTypePlural: member name -> value
ObjectTypePluralValue ==
    [ALERTS |-> "alerts", DASHBOARDS |-> "dashboards",
     DATA_SOURCES |-> "data_sources", QUERIES |-> "queries"]

\* sql.ObjectTypePlural(value): the member with that value
ObjectTypePlural(value) ==
    CHOOSE m \in DOMAIN ObjectTypePluralValue : ObjectTypePluralValue[m] = value

-----------------------------------------------------------------------------
(* The relevance filter and the rewriter *)

\* is_item_relevant reading the user names of the entries
is_item_relevant_by_user_name(item, migration_state) ==
    LET acl == parsed_access_control_list(item.raw)
        mentioned_groups == [i \in 1..Len(acl) |-> acl[i].user_name]
    IN  \E k \in 1..Len(migration_state.groups) :
            \E i \in 1..Len(mentioned_groups) :
                mentioned_groups[i] = migration_state.groups[k].workspace.display_name

\* is_item_relevant: any(g in mentioned_groups for g in workspace names)
is_item_relevant(item, migration_state) ==
    LET acl == parsed_access_control_list(item.raw)
        mentioned_groups == [i \in 1..Len(acl) |-> acl[i].group_name]
    IN  \E k \in 1..Len(migration_state.groups) :
            \E i \in 1..Len(mentioned_groups) :
                mentioned_groups[i] = migration_state.groups[k].workspace.display_name

\* the rewrite branch taken by every entry that names a group
takes_rewrite_branch_any_group(acl_request, migration_state) ==
    acl_request.group_name # None

\* the condition of line 98: the entry takes the rewrite branch
takes_rewrite_branch(acl_request, migration_state) ==
    acl_request.group_name \in workspace_display_names(migration_state)

\* the replacement always naming the account group
replaced_acl_request_account(acl_request, migration_info, destination) ==
    [acl_request EXCEPT !.group_name = migration_info.account.display_name]

\* the replacement always naming the backup group
replaced_acl_request_backup(acl_request, migration_info, destination) ==
    [acl_request EXCEPT !.group_name = migration_info.backup.display_name]

\* dataclasses.replace(acl_request, group_name=destination_group.display_name),
\* with destination_group = getattr(migration_info, destination)
replaced_acl_request(acl_request, migration_info, destination) ==
    [acl_request EXCEPT !.group_name = migration_info[destination].display_name]

\* the iteration that appends only the replaced entries
prepare_step_drops_unchanged(heap, acl_request, acl_requests, migration_state, destination) ==
    IF takes_rewrite_branch(heap[acl_request], migration_state)
    THEN
      LET migration_info ==
              get_by_workspace_group_name(migration_state, heap[acl_request].group_name)
      IN  IF migration_info = <<>>
          THEN [raised |-> TRUE, heap |-> heap, acl_requests |-> <<>>]
          ELSE [raised |-> FALSE,
                heap |-> Append(heap, replaced_acl_request(heap[acl_request],
                                                           migration_info[1], destination)),
                acl_requests |-> Append(acl_requests, Len(heap) + 1)]
    ELSE [raised |-> FALSE, heap |-> heap, acl_requests |-> acl_requests]

\* the iteration that merges a replaced entry into an equal entry of the output
prepare_step_merges(heap, acl_request, acl_requests, migration_state, destination) ==
    IF takes_rewrite_branch(heap[acl_request], migration_state)
    THEN
      LET migration_info ==
              get_by_workspace_group_name(migration_state, heap[acl_request].group_name)
      IN  IF migration_info = <<>>
          THEN [raised |-> TRUE, heap |-> heap, acl_requests |-> <<>>]
          ELSE
            LET new_acl_request == replaced_acl_request(heap[acl_request],
                                                        migration_info[1], destination)
            IN  IF \E j \in 1..Len(acl_requests) : heap[acl_requests[j]] = new_acl_request
                THEN [raised |-> FALSE, heap |-> heap, acl_requests |-> acl_requests]
                ELSE [raised |-> FALSE,
                      heap |-> Append(heap, new_acl_request),
                      acl_requests |-> Append(acl_requests, Len(heap) + 1)]
    ELSE [raised |-> FALSE, heap |-> heap, acl_requests |-> Append(acl_requests, acl_request)]

\* the iteration that appends a copy of an unchanged entry
prepare_step_copies(heap, acl_request, acl_requests, migration_state, destination) ==
    IF takes_rewrite_branch(heap[acl_request], migration_state)
    THEN
      LET migration_info ==
              get_by_workspace_group_name(migration_state, heap[acl_request].group_name)
      IN  IF migration_info = <<>>
          THEN [raised |-> TRUE, heap |-> heap, acl_requests |-> <<>>]
          ELSE [raised |-> FALSE,
                heap |-> Append(heap, replaced_acl_request(heap[acl_request],
                                                           migration_info[1], destination)),
                acl_requests |-> Append(acl_requests, Len(heap) + 1)]
    ELSE [raised |-> FALSE,
          heap |-> Append(heap, heap[acl_request]),
          acl_requests |-> Append(acl_requests, Len(heap) + 1)]

\* One iteration of the loop of _prepare_new_acl.  heap is the sequence of the
\* AccessControl objects allocated so far (an object is its index on the
\* heap), acl_request the object of this iteration, acl_requests the output
\* list built so far.
prepare_step(heap, acl_request, acl_requests, migration_state, destination) ==
    IF takes_rewrite_branch(heap[acl_request], migration_state)
    THEN
      LET migration_info ==
              get_by_workspace_group_name(migration_state, heap[acl_request].group_name)
      IN  IF migration_info = <<>>
          THEN \* the assert fails: AssertionError leaves the function
               [raised |-> TRUE, heap |-> heap, acl_requests |-> <<>>]
          ELSE \* a new object is allocated and appended
               [raised |-> FALSE,
                heap |-> Append(heap, replaced_acl_request(heap[acl_request],
                                                           migration_info[1], destination)),
                acl_requests |-> Append(acl_requests, Len(heap) + 1)]
    ELSE \* no changes shall be applied: the input object itself is appended
         [raised |-> FALSE, heap |-> heap, acl_requests |-> Append(acl_requests, acl_request)]

\* the loop of _prepare_new_acl from entry i of acl on
RECURSIVE prepare_loop(_, _, _, _, _, _)
prepare_loop(heap, acl, i, acl_requests, migration_state, destination) ==
    IF i > Len(acl)
    THEN [raised |-> FALSE, heap |-> heap, acl_requests |-> acl_requests]
    ELSE LET s == prepare_step(heap, acl[i], acl_requests, migration_state, destination)
         IN  IF s.raised
             THEN s
             ELSE prepare_loop(s.heap, acl, i + 1, s.acl_requests,
                               migration_state, destination)

\* SqlPermissionsSupport._prepare_new_acl
_prepare_new_acl(heap, acl, migration_state, destination) ==
    prepare_loop(heap, acl, 1, <<>>, migration_state, destination)

\* the entries a list of objects holds
deref(heap, refs) == [i \in 1..Len(refs) |-> heap[refs[i]]]

-----------------------------------------------------------------------------
(* Crawler and applier tasks *)

\* error codes a DatabricksError of the remote get may carry (None: no code)
ErrorCodes ==
    {"RESOURCE_DOES_NOT_EXIST", "RESOURCE_NOT_FOUND", "PERMISSION_DENIED",
     "INTERNAL_ERROR", None}

\* the codes on which _safe_get_dbsql_permissions returns None
SoftSkipCodes == {"RESOURCE_DOES_NOT_EXIST", "RESOURCE_NOT_FOUND", "PERMISSION_DENIED"}

\* entries of the access control lists the remote returns
RemoteEntries ==
    {[group_name |-> "eng-ws", user_name |-> None, permission_level |-> "CAN_RUN"],
     [group_name |-> "ops-ws", user_name |-> None, permission_level |-> "CAN_VIEW"],
     [group_name |-> None, user_name |-> "alice", permission_level |-> "CAN_VIEW"]}

\* the access control lists the remote returns: one grant per principal
RemoteAcls ==
    {a \in SeqsUpTo(RemoteEntries, MaxRemoteAcl) :
        \A i, j \in 1..Len(a) : a[i] = a[j] => i = j}

\* what self._ws.dbsql_permissions.get answers: a sql.GetResponse, or a
\* DatabricksError with an error code
RemoteResponses ==
    {[ok |-> TRUE, error_code |-> None, permissions |-> [access_control_list |-> a]] :
        a \in RemoteAcls}
    \cup
    {[ok |-> FALSE, error_code |-> c, permissions |-> [access_control_list |-> <<>>]] :
        c \in ErrorCodes}

\* the get that returns None on every DatabricksError
_safe_get_dbsql_permissions_any_error(response) ==
    IF response.ok
    THEN [outcome |-> "value", permissions |-> response.permissions, error_code |-> None]
    ELSE [outcome |-> "none", permissions |-> response.permissions, error_code |-> None]

\* _safe_get_dbsql_permissions on the remote's answer: the response, None, or
\* the error raised again
_safe_get_dbsql_permissions(response) ==
    IF response.ok
    THEN [outcome |-> "value", permissions |-> response.permissions, error_code |-> None]
    ELSE IF response.error_code \in SoftSkipCodes
         THEN [outcome |-> "none", permissions |-> response.permissions, error_code |-> None]
         ELSE [outcome |-> "raised", permissions |-> response.permissions,
               error_code |-> response.error_code]

\* base.Permissions
Permissions(object_id, object_type, raw) ==
    [object_id |-> object_id, object_type |-> object_type, raw |-> raw]

\* _crawler_task: <<Permissions>> in item when permissions were got, <<>> for None
_crawler_task(object_id, object_type, response) ==
    LET permissions == _safe_get_dbsql_permissions(response) IN
    IF permissions.outcome = "value"
    THEN [outcome |-> "value",
          item |-> <<Permissions(object_id, ObjectTypePluralValue[object_type],
                                 GetResponse_as_dict(permissions.permissions))>>,
          error_code |-> None]
    ELSE [outcome |-> permissions.outcome, item |-> <<>>,
          error_code |-> permissions.error_code]

\* the task creation that falls back to the unchanged list when the rewrite fails
_get_apply_task_swallows(item, migration_state, destination) ==
    LET parsed == parsed_access_control_list(item.raw)
        acl == [i \in 1..Len(parsed) |-> i]
        new_acl == _prepare_new_acl(parsed, acl, migration_state, destination)
    IN  [raised |-> FALSE,
         task |-> [object_type |-> ObjectTypePlural(item.object_type),
                   object_id |-> item.object_id,
                   acl |-> IF new_acl.raised THEN parsed
                           ELSE deref(new_acl.heap, new_acl.acl_requests)]]

\* _get_apply_task: the rewrite runs here, when the task is created; the task
\* is the partial of _applier_task with its three keyword arguments
_get_apply_task(item, migration_state, destination) ==
    LET parsed == parsed_access_control_list(item.raw)
        acl == [i \in 1..Len(parsed) |-> i]
        new_acl == _prepare_new_acl(parsed, acl, migration_state, destination)
    IN  [raised |-> new_acl.raised,
         task |-> [object_type |-> ObjectTypePlural(item.object_type),
                   object_id |-> item.object_id,
                   acl |-> deref(new_acl.heap, new_acl.acl_requests)]]

\* the applier task that issues the set a second time
_applier_task_twice(object_type, object_id, acl) ==
    <<[object_type |-> object_type, object_id |-> object_id, access_control_list |-> acl],
      [object_type |-> object_type, object_id |-> object_id, access_control_list |-> acl]>>

\* _applier_task: the one remote call it makes
_applier_task(object_type, object_id, acl) ==
    <<[object_type |-> object_type, object_id |-> object_id, access_control_list |-> acl]>>

-----------------------------------------------------------------------------
(* Listings *)

ObjectIdPool == <<"id-a", "id-b", "id-c", "id-d">>

ListedKinds == <<"DASHBOARDS", "QUERIES">>

\* what the listing function of kind j returns: objects with an id
listing_func(j) ==
    LET n == (NObjects + Len(ListedKinds) - j) \div Len(ListedKinds)
    IN  [i \in 1..n |-> [id |-> ObjectIdPool[i]]]

\* redash_listing_wrapper(func, object_type)()
redash_listing_wrapper(func, object_type) ==
    [i \in 1..Len(func) |-> [object_id |-> func[i].id, request_type |-> object_type]]

RECURSIVE crawler_tasks_from(_)
crawler_tasks_from(j) ==
    IF j > Len(ListedKinds) THEN <<>>
    ELSE redash_listing_wrapper(listing_func(j), ListedKinds[j]) \o crawler_tasks_from(j + 1)

\* get_crawler_tasks: one task (object_id, object_type) per listed item
get_crawler_tasks == crawler_tasks_from(1)

Tasks == 1..Len(get_crawler_tasks)

-----------------------------------------------------------------------------
(* State *)

VARIABLES
    migration_state,  \* the GroupMigrationState of the run
    destination,      \* the Destination of the run
    \* one record under the filter and the rewriter
    item,             \* the Permissions record
    called,           \* which of the two calls have returned
    relevant,         \* what is_item_relevant returned
    heap,             \* the AccessControl objects allocated, by object number
    acl,              \* the list passed to _prepare_new_acl, as object numbers
    new_acl,          \* what _prepare_new_acl returned
    \* the crawl pass and the apply pass
    crawl_state,      \* per crawler task: pending, absent, failed, stored
    crawl_error,      \* per crawler task: the error code raised
    remote_answer,    \* per crawler task: <<what the remote get answered>>
    snapshot,         \* per crawler task: <<Permissions>> once stored
    apply_state,      \* per record: pending, skipped, failed, created, applied, set_failed
    apply_task,       \* per record: <<task>> once created
    set_calls         \* per record: the remote set calls its task issued

rewrite_vars == <<item, called, relevant, heap, acl, new_acl>>

pass_vars == <<crawl_state, crawl_error, remote_answer, snapshot, apply_state, apply_task, set_calls>>

vars == <<migration_state, destination, rewrite_vars, pass_vars>>

NoResult == [raised |-> FALSE, acl_requests |-> <<>>]

RewriteIdle ==
    /\ item = Permissions("id-a", "dashboards", [access_control_list |-> <<>>])
    /\ called = {}
    /\ relevant = FALSE
    /\ heap = <<>>
    /\ acl = <<>>
    /\ new_acl = NoResult

PassIdle ==
    /\ crawl_state = [k \in Tasks |-> "pending"]
    /\ crawl_error = [k \in Tasks |-> None]
    /\ remote_answer = [k \in Tasks |-> <<>>]
    /\ snapshot = [k \in Tasks |-> <<>>]
    /\ apply_state = [k \in Tasks |-> "pending"]
    /\ apply_task = [k \in Tasks |-> <<>>]
    /\ set_calls = [k \in Tasks |-> <<>>]

-----------------------------------------------------------------------------
(* SpecRewrite: the filter and the rewriter on one record *)

InitRewrite ==
    /\ migration_state \in MigrationStates
    /\ destination \in Destination
    /\ \E a \in SeqsUpTo(AccessControl, MaxAcl) :
           item = Permissions("id-a", "dashboards",
                              GetResponse_as_dict([access_control_list |-> a]))
    /\ called = {}
    /\ relevant = FALSE
    /\ heap = <<>>
    /\ acl = <<>>
    /\ new_acl = NoResult
    /\ PassIdle

\* the caller asks the relevance filter
CallIsItemRelevant ==
    /\ "is_item_relevant" \notin called
    /\ relevant' = is_item_relevant(item, migration_state)
    /\ called' = called \cup {"is_item_relevant"}
    /\ UNCHANGED <<migration_state, destination, item, heap, acl, new_acl, pass_vars>>

\* the body of _get_apply_task up to the return of _prepare_new_acl: from_dict
\* allocates the input objects, the rewriter allocates the replaced ones
CallPrepareNewAcl ==
    /\ "_prepare_new_acl" \notin called
    /\ LET parsed == parsed_access_control_list(item.raw)
           input == [i \in 1..Len(parsed) |-> i]
           r == _prepare_new_acl(parsed, input, migration_state, destination)
       IN  /\ acl' = input
           /\ heap' = r.heap
           /\ new_acl' = [raised |-> r.raised, acl_requests |-> r.acl_requests]
    /\ called' = called \cup {"_prepare_new_acl"}
    /\ UNCHANGED <<migration_state, destination, item, relevant, pass_vars>>

NextRewrite == CallIsItemRelevant \/ CallPrepareNewAcl

SpecRewrite == InitRewrite /\ [][NextRewrite]_vars

-----------------------------------------------------------------------------
(* Spec: the crawl pass and the apply pass *)

\* the migration states of the runs of the two passes: every account group is
\* named eng-acct, and eng-ws is listed before ops-ws
PassMigrationStates ==
    {m \in MigrationStates :
        /\ \A i \in 1..Len(m.groups) : m.groups[i].account.display_name = "eng-acct"
        /\ Len(m.groups) >= 2 => m.groups[1].workspace.display_name = "eng-ws"}

Init ==
    /\ migration_state \in PassMigrationStates
    /\ destination \in Destination
    /\ RewriteIdle
    /\ PassIdle

\* a worker runs crawler task k: the remote get answers, _crawler_task returns
\* a record (stored in the snapshot), None (nothing stored) or raises
RunCrawlerTask(k) ==
    /\ crawl_state[k] = "pending"
    /\ \E response \in RemoteResponses :
        LET t == get_crawler_tasks[k]
            r == _crawler_task(t.object_id, t.request_type, response)
        IN  /\ crawl_state' = [crawl_state EXCEPT ![k] =
                   CASE r.outcome = "value" -> "stored"
                     [] r.outcome = "none" -> "absent"
                     [] OTHER -> "failed"]
            /\ crawl_error' = [crawl_error EXCEPT ![k] = r.error_code]
            /\ remote_answer' = [remote_answer EXCEPT ![k] = <<response>>]
            /\ snapshot' = [snapshot EXCEPT ![k] = r.item]
    /\ UNCHANGED <<migration_state, destination, rewrite_vars,
                   apply_state, apply_task, set_calls>>

CrawlPassDone == \A k \in Tasks : crawl_state[k] # "pending"

\* apply pass, a record the relevance filter rejects: no task, no remote call
SkipItem(k) ==
    /\ CrawlPassDone
    /\ crawl_state[k] = "stored"
    /\ apply_state[k] = "pending"
    /\ ~is_item_relevant(snapshot[k][1], migration_state)
    /\ apply_state' = [apply_state EXCEPT ![k] = "skipped"]
    /\ UNCHANGED <<migration_state, destination, rewrite_vars,
                   crawl_state, crawl_error, remote_answer, snapshot, apply_task, set_calls>>

\* apply pass, a relevant record: _get_apply_task returns the task or raises;
\* a failure is recorded for this record alone
GetApplyTask(k) ==
    /\ CrawlPassDone
    /\ crawl_state[k] = "stored"
    /\ apply_state[k] = "pending"
    /\ is_item_relevant(snapshot[k][1], migration_state)
    /\ LET r == _get_apply_task(snapshot[k][1], migration_state, destination)
       IN  IF r.raised
           THEN /\ apply_state' = [apply_state EXCEPT ![k] = "failed"]
                /\ UNCHANGED apply_task
           ELSE /\ apply_state' = [apply_state EXCEPT ![k] = "created"]
                /\ apply_task' = [apply_task EXCEPT ![k] = <<r.task>>]
    /\ UNCHANGED <<migration_state, destination, rewrite_vars,
                   crawl_state, crawl_error, remote_answer, snapshot, set_calls>>

\* a worker runs the apply task of record k: _applier_task issues the remote
\* set, which answers or raises
RunApplierTask(k) ==
    /\ apply_state[k] = "created"
    /\ LET t == apply_task[k][1]
       IN  set_calls' = [set_calls EXCEPT ![k] =
               set_calls[k] \o _applier_task(t.object_type, t.object_id, t.acl)]
    /\ \E ok \in BOOLEAN :
           apply_state' = [apply_state EXCEPT ![k] = IF ok THEN "applied" ELSE "set_failed"]
    /\ UNCHANGED <<migration_state, destination, rewrite_vars,
                   crawl_state, crawl_error, remote_answer, snapshot, apply_task>>

Next ==
    \E k \in Tasks :
        \/ RunCrawlerTask(k)
        \/ SkipItem(k)
        \/ GetApplyTask(k)
        \/ RunApplierTask(k)

Spec == Init /\ [][Next]_vars

-----------------------------------------------------------------------------
(* Properties of the filter and the rewriter (SpecRewrite) *)

\* the ACL of the record, as the caller parses it
SourceAcl == parsed_access_control_list(item.raw)

\* _prepare_new_acl has returned a list
RewriteCompleted == "_prepare_new_acl" \in called /\ ~new_acl.raised

\* the entries of the returned list
OutputAcl == deref(heap, new_acl.acl_requests)

Occurrences(list, e) == Cardinality({i \in 1..Len(list) : list[i] = e})

IsSourceName(name) ==
    \E k \in 1..Len(migration_state.groups) :
        migration_state.groups[k].workspace.display_name = name

\* C1: every entry whose group name is not the workspace display name of a
\* group of the migration state appears in the output of _prepare_new_acl with
\* the same group name, user name and permission level, as often as in the
\* input; entries that name a user and have no group name included.
C1_NonMigratingPassThrough ==
    RewriteCompleted =>
        \A i \in 1..Len(SourceAcl) :
            ~IsSourceName(SourceAcl[i].group_name) =>
                Occurrences(OutputAcl, SourceAcl[i]) >= Occurrences(SourceAcl, SourceAcl[i])

\* a rewrite that completed on a list holding a user entry and a rewritten entry
C1_Witness ==
    /\ RewriteCompleted
    /\ \E i, j \in 1..Len(SourceAcl) :
           /\ SourceAcl[i].group_name = None
           /\ SourceAcl[i].user_name = "alice"
           /\ OutputAcl[i] = SourceAcl[i]
           /\ IsSourceName(SourceAcl[j].group_name)
           /\ OutputAcl[j] # SourceAcl[j]

\* C2: for every entry whose group name is the workspace name of a migration
\* info, the output holds an entry whose group name is the display name of the
\* group the destination selects from that migration info and whose other
\* fields are those of the entry.
C2_MigratingRewritten ==
    RewriteCompleted =>
        \A i \in 1..Len(SourceAcl) :
            \A k \in 1..Len(migration_state.groups) :
                LET info == migration_state.groups[k] IN
                SourceAcl[i].group_name = info.workspace.display_name =>
                    \E j \in 1..Len(OutputAcl) :
                        /\ OutputAcl[j].group_name =
                               (IF destination = "backup" THEN info.backup.display_name
                                ELSE info.account.display_name)
                        /\ OutputAcl[j].user_name = SourceAcl[i].user_name
                        /\ OutputAcl[j].permission_level = SourceAcl[i].permission_level

\* a completed rewrite to the account group of a two-group migration state,
\* the entry's group being the second one
C2_Witness ==
    /\ RewriteCompleted
    /\ destination = "account"
    /\ Len(migration_state.groups) = 2
    /\ \E i \in 1..Len(SourceAcl) :
           /\ SourceAcl[i].group_name = migration_state.groups[2].workspace.display_name
           /\ OutputAcl[i].group_name = migration_state.groups[2].account.display_name
           /\ OutputAcl[i].group_name # SourceAcl[i].group_name

\* C3: when the rewrite completes the output has exactly as many entries as
\* the input, also when two entries end up with the same principal.
C3_SameLength ==
    RewriteCompleted => Len(new_acl.acl_requests) = Len(SourceAcl)

\* a source-group entry rewritten to the name of a destination-group entry
\* that is already in the list, with the same permission level
C3_Witness ==
    /\ RewriteCompleted
    /\ \E i, j \in 1..Len(SourceAcl) :
           /\ i # j
           /\ SourceAcl[i] # SourceAcl[j]
           /\ IsSourceName(SourceAcl[i].group_name)
           /\ ~IsSourceName(SourceAcl[j].group_name)
           /\ OutputAcl[i] = OutputAcl[j]

\* C4: is_item_relevant is true exactly when an entry of the record's parsed
\* ACL has the workspace display name of a group of the migration state as
\* its group name.
C4_RelevantIffMentioned ==
    "is_item_relevant" \in called =>
        (relevant <=> \E i \in 1..Len(SourceAcl) : IsSourceName(SourceAcl[i].group_name))

\* relevant because of the last entry and the second group only
C4_Witness ==
    /\ "is_item_relevant" \in called
    /\ relevant
    /\ Len(SourceAcl) = 2
    /\ Len(migration_state.groups) = 2
    /\ ~IsSourceName(SourceAcl[1].group_name)
    /\ SourceAcl[2].group_name = migration_state.groups[2].workspace.display_name

\* C9 as stated: no entry object of the output list is an entry object of the
\* input list.
C9_NoAliasing ==
    RewriteCompleted =>
        \A i \in 1..Len(acl) : \A j \in 1..Len(new_acl.acl_requests) :
            new_acl.acl_requests[j] # acl[i]

\* C9 amended: a non-migrating entry is passed through as the input object
\* itself, a migrating entry is replaced by a newly allocated object, and the
\* rewriter leaves the fields of every input object as they were.
C9_PassThroughIsSameObject ==
    RewriteCompleted =>
        /\ Len(new_acl.acl_requests) = Len(acl)
        /\ \A i \in 1..Len(acl) :
               /\ heap[acl[i]] = SourceAcl[i]
               /\ IF IsSourceName(SourceAcl[i].group_name)
                  THEN \A j \in 1..Len(acl) : new_acl.acl_requests[i] # acl[j]
                  ELSE new_acl.acl_requests[i] = acl[i]

\* a completed rewrite with an aliased entry after a replaced one
C9_Witness ==
    /\ RewriteCompleted
    /\ Len(acl) = 2
    /\ new_acl.acl_requests[1] \notin {acl[1], acl[2]}
    /\ new_acl.acl_requests[2] = acl[2]

\* C10: when is_item_relevant is false, _prepare_new_acl returns the input
\* entry by entry; when it is true, at least one entry takes the rewrite
\* branch (the rewriter allocates a replaced entry or fails the lookup).
C10_FilterAgreesWithRewriter ==
    called = {"is_item_relevant", "_prepare_new_acl"} =>
        /\ ~relevant => (~new_acl.raised /\ OutputAcl = SourceAcl /\ Len(heap) = Len(acl))
        /\ relevant => (new_acl.raised \/ Len(heap) > Len(acl))

\* both calls made on a record the filter rejects although it names a group
C10_Witness ==
    /\ called = {"is_item_relevant", "_prepare_new_acl"}
    /\ ~relevant
    /\ Len(migration_state.groups) > 0
    /\ \E i \in 1..Len(SourceAcl) : SourceAcl[i].group_name # None

\* both calls made on a record the filter accepts, the lookup failing
C10_WitnessRaised ==
    /\ called = {"is_item_relevant", "_prepare_new_acl"}
    /\ relevant
    /\ new_acl.raised

-----------------------------------------------------------------------------
(* Properties of the crawl pass and the apply pass (Spec) *)

\* the ACL of snapshot record k, as the apply pass parses it
SourceAclOf(k) == parsed_access_control_list(snapshot[k][1].raw)

\* the principal an entry names
Principal(e) == IF e.group_name # None THEN e.group_name ELSE e.user_name

\* C5: a fetch returns absent (None, nothing raised, no snapshot record) exactly
\* when the remote get fails with RESOURCE_NOT_FOUND, RESOURCE_DOES_NOT_EXIST
\* or PERMISSION_DENIED; a failure with any other code is raised to the
\* caller with that code.
C5_AbsentIffSoftSkipCode ==
    \A k \in Tasks :
        crawl_state[k] # "pending" =>
            LET answer == remote_answer[k][1]
                soft == /\ ~answer.ok
                        /\ answer.error_code \in
                             {"RESOURCE_NOT_FOUND", "RESOURCE_DOES_NOT_EXIST", "PERMISSION_DENIED"}
            IN  /\ crawl_state[k] = "absent" <=> soft
                /\ crawl_state[k] = "absent" => snapshot[k] = <<>>
                /\ (~answer.ok /\ ~soft) =>
                       /\ crawl_state[k] = "failed"
                       /\ crawl_error[k] = answer.error_code
                       /\ snapshot[k] = <<>>
                /\ answer.ok => crawl_state[k] = "stored" /\ Len(snapshot[k]) = 1

\* one fetch skipped on PERMISSION_DENIED, another raising INTERNAL_ERROR
C5_Witness ==
    \E k, j \in Tasks :
        /\ crawl_state[k] = "absent"
        /\ remote_answer[k][1].error_code = "PERMISSION_DENIED"
        /\ crawl_state[j] = "failed"
        /\ crawl_error[j] = "INTERNAL_ERROR"

\* the remote set the apply task of record k is to issue
ExpectedSetCall(k) ==
    LET source == SourceAclOf(k)
        r == _prepare_new_acl(source, [i \in 1..Len(source) |-> i],
                              migration_state, destination)
    IN  [object_type |-> get_crawler_tasks[k].request_type,
         object_id |-> get_crawler_tasks[k].object_id,
         access_control_list |-> deref(r.heap, r.acl_requests)]

\* C6: no remote set is issued for a record before its rewrite has returned,
\* and running the record's apply task issues exactly one remote set, for the
\* record's own object kind and object id, with the rewriter's output for the
\* record's ACL as access control list.
C6_RewriteThenOneSet ==
    \A k \in Tasks :
        IF apply_state[k] \in {"pending", "skipped", "failed"}
        THEN set_calls[k] = <<>>
        ELSE LET expected == ExpectedSetCall(k) IN
             /\ Len(apply_task[k]) = 1
             /\ apply_task[k][1].acl = expected.access_control_list
             /\ IF apply_state[k] = "created"
                THEN set_calls[k] = <<>>
                ELSE set_calls[k] = <<expected>>

\* two records with the same object id and different kinds, both with their
\* set issued, one with a rewritten entry and one with an unchanged entry
C6_Witness ==
    \E k, j \in Tasks :
        /\ k # j
        /\ apply_state[k] = "applied"
        /\ apply_state[j] \in {"applied", "set_failed"}
        /\ get_crawler_tasks[k].object_id = get_crawler_tasks[j].object_id
        /\ set_calls[k][1].object_type # set_calls[j][1].object_type
        /\ set_calls[k][1].access_control_list # SourceAclOf(k)
        /\ set_calls[j][1].access_control_list # set_calls[k][1].access_control_list

\* an entry of record k names a listed workspace group for which
\* get_by_workspace_group_name returns nothing
LookupFails(k) ==
    LET source == SourceAclOf(k) IN
    \E i \in 1..Len(source) :
        /\ source[i].group_name \in workspace_display_names(migration_state)
        /\ get_by_workspace_group_name(migration_state, source[i].group_name) = <<>>

C8_OnlySourcePrincipals ==
    \A k \in Tasks :
        \A c \in 1..Len(set_calls[k]) :
            \A i \in 1..Len(set_calls[k][c].access_control_list) :
                \E s \in 1..Len(SourceAclOf(k)) :
                    Principal(set_calls[k][c].access_control_list[i]) =
                        Principal(SourceAclOf(k)[s])

\* C8 amended: every principal named in the access control list passed to the
\* remote set is a principal of the record's source ACL, or the display name
\* of the destination group of a migrating group the source ACL names.
C8_SourceOrDestinationPrincipals ==
    \A k \in Tasks :
        set_calls[k] # <<>> =>
            LET source == SourceAclOf(k) IN
            \A c \in 1..Len(set_calls[k]) :
                \A i \in 1..Len(set_calls[k][c].access_control_list) :
                    LET e == set_calls[k][c].access_control_list[i] IN
                    \/ \E s \in 1..Len(source) : Principal(e) = Principal(source[s])
                    \/ \E s \in 1..Len(source) :
                           \E g \in 1..Len(migration_state.groups) :
                               LET info == migration_state.groups[g] IN
                               /\ source[s].group_name = info.workspace.display_name
                               /\ e.group_name =
                                      (IF destination = "backup" THEN info.backup.display_name
                                       ELSE info.account.display_name)

\* a set issued with a destination group the source ACL does not name
C8_Witness ==
    \E k \in Tasks :
        /\ Len(set_calls[k]) = 1
        /\ \E i \in 1..Len(set_calls[k][1].access_control_list) :
               \A s \in 1..Len(SourceAclOf(k)) :
                   Principal(set_calls[k][1].access_control_list[i]) # Principal(SourceAclOf(k)[s])

====
